---- MODULE Spec2Model ----
(***************************************************************************)
(* The "Deploy code" workflow of .github/workflows/prod_deploy.yml, as run  *)
(* by the hosting CI platform: events are delivered, matching events create *)
(* runs in the concurrency group "pages", a run executes its jobs in the    *)
(* order given by `needs`, each job executes its steps in order, and the    *)
(* deploy step replaces the content served at https://phteven.space/.       *)
(*                                                                         *)
(* The file holds two workflow documents one after the other (lines 1-58    *)
(* and 59-143).  The later one is the effective definition and is the one   *)
(* modelled; its deploy_aws job is commented out and is only part of the    *)
(* workflow under SpecAlt.                                                  *)
(***************************************************************************)
EXTENDS Integers, Sequences, FiniteSets, TLC

\* ---------------------------------------------------------------- bounds
MaxEvents == 3
MaxRuns == 2
MaxAltRuns == 1
MaxCommit == 2
MaxIdLen == 2
MaxTitleLen == 1

Commits == 1..MaxCommit
Branches == {"main", "dev"}
StatusCodes == {200, 301, 503}

\* ------------------------------------------------- the workflow document
\* on: push: { branches: [main], workflow_dispatch: } -- the key
\* workflow_dispatch is indented under push, so it is a key of the push
\* filter and not an event of `on`.
on == [push |-> [branches |-> {"main"}, workflow_dispatch |-> {}]]

concurrency == [group |-> "pages", cancel_in_progress |-> TRUE]

ActiveJobs == {"build", "deploy_pages", "check_gh_deploy"}
AltJobs == ActiveJobs \cup {"deploy_aws"}

needs_NoBuild ==
  [build |-> {}, deploy_pages |-> {}, check_gh_deploy |-> {"deploy_pages"},
   deploy_aws |-> {"build"}]
needs_NoDeploy ==
  [build |-> {}, deploy_pages |-> {"build"}, check_gh_deploy |-> {"build"},
   deploy_aws |-> {"build"}]
needs_Chained ==
  [build |-> {}, deploy_pages |-> {"build"}, check_gh_deploy |-> {"deploy_pages"},
   deploy_aws |-> {"build", "deploy_pages"}]
needs ==
  [build |-> {}, deploy_pages |-> {"build"}, check_gh_deploy |-> {"deploy_pages"},
   deploy_aws |-> {"build"}]

steps ==
  [build |-> <<"Checkout", "Use Node.js", "Build", "Setup Pages", "Upload artifact">>,
   deploy_pages |-> <<"Deploy to GitHub Pages">>,
   check_gh_deploy |-> <<"Check github.io page">>,
   deploy_aws |-> <<"Get artifact from build step", "Configure AWS Credentials",
                   "change directory", "unzip archive", "check files", "Deploy">>]

expected == {200}
sites == <<"https://phteven.space/">>

\* ------------------------------------------------------------- contents
\* A content is a set of pages; page 0 is the index page, page p > 0 the
\* page of post p.  No content is written as the empty set.
None == {}
Tree(c) == 1..c
GatsbyBuild(tree) == {0} \cup tree
InitialLive == GatsbyBuild({})

\* ------------------------------------------------- the embed component
\* A string is the sequence of its characters.
Chars == {"a", "&"}
Strings(n) == UNION {[1..k -> Chars] : k \in 0..n}
Props == [embed_id : Strings(MaxIdLen), title : Strings(MaxTitleLen)]

\* "https://www.youtube.com/embed/"
EmbedUrl ==
  <<"h", "t", "t", "p", "s", ":", "/", "/", "w", "w", "w", ".", "y", "o", "u",
    "t", "u", "b", "e", ".", "c", "o", "m", "/", "e", "m", "b", "e", "d", "/">>

RECURSIVE EncodeURIComponent(_)
EncodeURIComponent(str) ==
  IF str = <<>> THEN <<>>
  ELSE (CASE Head(str) = " " -> <<"%", "2", "0">>
          [] Head(str) = "&" -> <<"%", "2", "6">>
          [] OTHER -> <<Head(str)>>) \o EncodeURIComponent(Tail(str))

Iframe(src, title) ==
  [type |-> "div", className |-> "react-live-wrapper",
   children |-> <<[type |-> "iframe", src |-> src, width |-> "100%", height |-> "500",
                   frameBorder |-> "0",
                   allow |-> "accelerometer; autoplay; clipboard-write; encrypted-media; gyroscope; picture-in-picture",
                   allowFullScreen |-> TRUE, title |-> title]>>]

YoutubeEmbed_Encoded(p) == Iframe(EmbedUrl \o EncodeURIComponent(p.embed_id), p.title)
YoutubeEmbed(p) == Iframe(EmbedUrl \o p.embed_id, p.title)

VARIABLES workflow, delivered, runs, live, bucket, props, rendered
embed == <<props, rendered>>
vars == <<workflow, delivered, runs, live, bucket, props, rendered>>

EventKinds == {<<"push", "main">>, <<"push", "dev">>, <<"workflow_dispatch", "main">>}
Events ==
  [name : {"push"}, ref : Branches, sha : Commits]
    \cup [name : {"workflow_dispatch"}, ref : {"main"}, sha : Commits]
Kind(e) == <<e.name, e.ref>>
Total(d) == d[<<"push", "main">>] + d[<<"push", "dev">>] + d[<<"workflow_dispatch", "main">>]

\* ------------------------------------------------------------- triggers
Triggers(e) ==
  /\ e.name \in DOMAIN on
  /\ e.name = "push" => e.ref \in on.push.branches

\* ----------------------------------------------------------------- runs
Live(st) == st \in {"pending", "in_progress"}
Active(run) == \E j \in DOMAIN run.status : Live(run.status[j])

NewRun(e, js, served) ==
  [event |-> e.name, commit |-> e.sha, before |-> served,
   status |-> [j \in js |-> "pending"],
   step |-> [j \in js |-> 0],
   attempt |-> [j \in js |-> 0],
   tree |-> None, public |-> None, artifact |-> None, downloaded |-> None,
   responses |-> <<>>]

Cancel_OnlyPending(run) ==
  [run EXCEPT !.status =
     [j \in DOMAIN run.status |->
        IF run.status[j] = "pending" THEN "cancelled" ELSE run.status[j]]]
Cancel(run) ==
  [run EXCEPT !.status =
     [j \in DOMAIN run.status |->
        IF Live(run.status[j]) THEN "cancelled" ELSE run.status[j]]]

CancelInProgress_Never(rs) == rs
CancelInProgress(rs) ==
  IF concurrency.cancel_in_progress
    THEN [i \in DOMAIN rs |-> Cancel(rs[i])]
    ELSE rs

SkipDependents_None(st) == st
\* jobs whose needed job did not succeed are skipped, transitively
RECURSIVE SkipDependents(_)
SkipDependents(st) ==
  LET next == [k \in DOMAIN st |->
                 IF /\ st[k] = "pending"
                    /\ \E n \in needs[k] \cap DOMAIN st : st[n] \in {"failure", "skipped"}
                   THEN "skipped" ELSE st[k]]
  IN IF next = st THEN st ELSE SkipDependents(next)

Startable_Retry(run, j) ==
  /\ run.status[j] \in {"pending", "failure"}
  /\ \A n \in needs[j] \cap DOMAIN run.status : run.status[n] = "success"
Startable(run, j) ==
  /\ run.status[j] = "pending"
  /\ \A n \in needs[j] \cap DOMAIN run.status : run.status[n] = "success"

\* ---------------------------------------------------------- publishing
Deploy_Merge(current, artifact) == current \cup artifact
Deploy(current, artifact) == artifact

ArtifactOf_First(rs, r) == rs[1].artifact
ArtifactOf(rs, r) == rs[r].artifact

StatusOk_NotServerError(code) == code < 500
StatusOk(code) == code \in expected

\* -------------------------------------------------------------- actions
RunBound(js) == IF "deploy_aws" \in js THEN MaxAltRuns ELSE MaxRuns

Init ==
  /\ workflow = ActiveJobs
  /\ delivered = [k \in EventKinds |-> 0]
  /\ runs = <<>>
  /\ live = InitialLive
  /\ bucket = InitialLive
  /\ props = [embed_id |-> <<>>, title |-> <<>>]
  /\ rendered = <<>>

InitAlt ==
  /\ workflow = AltJobs
  /\ delivered = [k \in EventKinds |-> 0]
  /\ runs = <<>>
  /\ live = InitialLive
  /\ bucket = InitialLive
  /\ props = [embed_id |-> <<>>, title |-> <<>>]
  /\ rendered = <<>>

\* an event is delivered to the repository
Receive(e) ==
  /\ Total(delivered) < MaxEvents
  /\ Triggers(e) => Len(runs) < RunBound(workflow)
  /\ delivered' = [delivered EXCEPT ![Kind(e)] = @ + 1]
  /\ runs' = IF Triggers(e)
               THEN Append(CancelInProgress(runs), NewRun(e, workflow, live))
               ELSE runs
  /\ UNCHANGED <<workflow, live, bucket, embed>>

\* a runner picks up a job whose needed jobs succeeded
StartJob(r, j) ==
  /\ Startable(runs[r], j)
  /\ runs' = [runs EXCEPT ![r].status[j] = "in_progress",
                          ![r].step[j] = 1,
                          ![r].attempt[j] = @ + 1]
  /\ UNCHANGED <<workflow, delivered, live, bucket, embed>>

Advance(run, j) ==
  IF run.step[j] = Len(steps[j])
    THEN [run EXCEPT !.status[j] = "success"]
    ELSE [run EXCEPT !.step[j] = @ + 1]

\* the current step of a job exits with success
StepOk(r, j) ==
  LET run == runs[r]
      s == steps[j][run.step[j]]
  IN /\ run.status[j] = "in_progress"
     /\ s # "Check github.io page"
     /\ s = "Deploy to GitHub Pages" => ArtifactOf(runs, r) # None
     /\ s = "Deploy" => run.downloaded # None
     /\ runs' = [runs EXCEPT ![r] =
          Advance(
            CASE s = "Checkout" -> [run EXCEPT !.tree = Tree(run.commit)]
              [] s = "Build" -> [run EXCEPT !.public = GatsbyBuild(run.tree)]
              [] s = "Upload artifact" -> [run EXCEPT !.artifact = run.public]
              [] s = "Get artifact from build step" ->
                   [run EXCEPT !.downloaded = ArtifactOf(runs, r)]
              [] OTHER -> run, j)]
     /\ live' = IF s = "Deploy to GitHub Pages"
                  THEN Deploy(live, ArtifactOf(runs, r)) ELSE live
     /\ bucket' = IF s = "Deploy" THEN Deploy(bucket, run.downloaded) ELSE bucket
     /\ UNCHANGED <<workflow, delivered, embed>>

\* the current step of a job exits with failure: the job fails
StepFail(r, j) ==
  LET run == runs[r]
      s == steps[j][run.step[j]]
  IN /\ run.status[j] = "in_progress"
     /\ s # "Check github.io page"
     /\ runs' = [runs EXCEPT ![r].status =
                   SkipDependents([run.status EXCEPT ![j] = "failure"])]
     /\ UNCHANGED <<workflow, delivered, live, bucket, embed>>

\* the step of check_gh_deploy: one GET per site, each status must be expected
Verify(r, codes) ==
  LET run == runs[r]
      j == "check_gh_deploy"
  IN /\ run.status[j] = "in_progress"
     /\ steps[j][run.step[j]] = "Check github.io page"
     /\ runs' = [runs EXCEPT ![r] =
          IF \A i \in DOMAIN codes : StatusOk(codes[i])
            THEN Advance([run EXCEPT !.responses = codes], j)
            ELSE [run EXCEPT !.responses = codes,
                             !.status = SkipDependents([run.status EXCEPT ![j] = "failure"])]]
     /\ UNCHANGED <<workflow, delivered, live, bucket, embed>>

Next ==
  \/ \E e \in Events : Receive(e)
  \/ \E r \in DOMAIN runs : \E j \in workflow : StartJob(r, j)
  \/ \E r \in DOMAIN runs : \E j \in workflow : StepOk(r, j)
  \/ \E r \in DOMAIN runs : \E j \in workflow : StepFail(r, j)
  \/ \E r \in DOMAIN runs : \E codes \in [DOMAIN sites -> StatusCodes] : Verify(r, codes)

Spec == Init /\ [][Next]_vars
SpecAlt == InitAlt /\ [][Next]_vars

\* the component in a page: the page passes props, React renders the element
InitEmbed ==
  /\ workflow = ActiveJobs
  /\ delivered = [k \in EventKinds |-> 0]
  /\ runs = <<>>
  /\ live = InitialLive
  /\ bucket = InitialLive
  /\ props \in Props
  /\ rendered = <<>>

SetProps(p) ==
  /\ p # props
  /\ props' = p
  /\ UNCHANGED <<workflow, delivered, runs, live, bucket, rendered>>

Render ==
  /\ rendered' = <<YoutubeEmbed(props)>>
  /\ UNCHANGED <<workflow, delivered, runs, live, bucket, props>>

NextEmbed ==
  \/ \E p \in Props : SetProps(p)
  \/ Render

SpecEmbed == InitEmbed /\ [][NextEmbed]_vars

\* a runner is eventually available for a startable job and a started step
\* eventually exits; the delivery of events is not forced
Progress ==
  \/ \E r \in DOMAIN runs : \E j \in workflow : StartJob(r, j)
  \/ \E r \in DOMAIN runs : \E j \in workflow : StepOk(r, j) \/ StepFail(r, j)
  \/ \E r \in DOMAIN runs : \E codes \in [DOMAIN sites -> StatusCodes] : Verify(r, codes)
SpecFair == Init /\ [][Next]_vars /\ WF_vars(Progress)

TypeOK ==
  /\ workflow \in {ActiveJobs, AltJobs}
  /\ Total(delivered) <= MaxEvents
  /\ Len(runs) <= MaxEvents
  /\ live \subseteq 0..MaxCommit
  /\ bucket \subseteq 0..MaxCommit
\* ---------------------------------------------------------------- claims
Started(run, j) == j \in DOMAIN run.status /\ run.attempt[j] > 0
LastRun == runs[Len(runs)]

\* C1: at every moment at most one run of the concurrency group "pages" is
\* active, and it is the most recently triggered one: every run that was in
\* flight when a newer run was triggered is no longer active.
C1_OneActiveRun ==
  /\ Cardinality({r \in DOMAIN runs : Active(runs[r])}) <= 1
  /\ \A r \in DOMAIN runs : Active(runs[r]) => r = Len(runs)

\* a run was cancelled while its deploy_pages job was in flight and the run
\* that superseded it is active
C1_Witness ==
  /\ Len(runs) >= 2
  /\ Started(runs[1], "deploy_pages")
  /\ runs[1].status["deploy_pages"] = "cancelled"
  /\ Active(LastRun)

\* C2: a run whose build job failed has stored no artifact, never started
\* deploy_pages or check_gh_deploy, is over, and (while it is the latest run)
\* the live content is what was live when the run was created.
C2_BuildFailureHalts ==
  \A r \in DOMAIN runs :
    runs[r].status["build"] = "failure" =>
      /\ runs[r].artifact = None
      /\ \A j \in DOMAIN runs[r].status \ {"build"} :
           runs[r].attempt[j] = 0 /\ runs[r].status[j] = "skipped"
      /\ ~Active(runs[r])
      /\ r = Len(runs) => live = runs[r].before

\* the Build step (npm ci, npm run build) of a run failed after an earlier
\* run had published
C2_Witness ==
  /\ Len(runs) >= 2
  /\ runs[1].status["deploy_pages"] = "success"
  /\ LastRun.status["build"] = "failure"
  /\ LastRun.step["build"] = 3
  /\ live # InitialLive

\* C3: in every run the stages happen in the order BUILD, PACKAGE, publish,
\* VERIFY: the upload step is reached only after the Build step produced the
\* output directory, a publish job starts only after the build job succeeded
\* and stored the artifact, and check_gh_deploy starts only after
\* deploy_pages succeeded.
C3_StageOrder ==
  \A r \in DOMAIN runs :
    LET run == runs[r] IN
      /\ run.step["build"] >= 3 => run.tree = 1..run.commit
      /\ run.step["build"] >= 5 => run.public = 0..run.commit
      /\ run.artifact # None => run.step["build"] = 5
      /\ \A j \in {"deploy_pages", "deploy_aws"} :
           Started(run, j) => run.status["build"] = "success" /\ run.artifact # None
      /\ Started(run, "check_gh_deploy") => run.status["deploy_pages"] = "success"
      /\ run.status["check_gh_deploy"] = "success" =>
           \A j \in DOMAIN run.status : run.status[j] = "success" \/ j = "deploy_aws"

\* a run went through all four stages
C3_Witness ==
  \E r \in DOMAIN runs :
    /\ runs[r].status["check_gh_deploy"] = "success"
    /\ live = runs[r].artifact

\* C4: once every run has terminated, if deploy_pages of the most recently
\* triggered run succeeded then the live content is that run's artifact.
C4_LatestCommitWins ==
  (/\ runs # <<>>
   /\ \A r \in DOMAIN runs : ~Active(runs[r])
   /\ LastRun.status["deploy_pages"] = "success")
    => live = 0..LastRun.commit

\* two runs of different commits, the earlier one superseded while it was
\* publishing, the later one published
C4_Witness ==
  /\ Len(runs) >= 2
  /\ \A r \in DOMAIN runs : ~Active(runs[r])
  /\ Started(runs[1], "deploy_pages")
  /\ runs[1].commit # LastRun.commit
  /\ LastRun.status["deploy_pages"] = "success"

\* C5: a run is created on each push to main and on each manual dispatch, and
\* on no other event: the number of runs is the number of such events.
C5_RunPerTrigger ==
  Len(runs) = delivered[<<"push", "main">>] + delivered[<<"workflow_dispatch", "main">>]
\* the step of job j of run r exits (with success or failure) in this
\* transition; a cancellation is not an exit of the step
StepExits(r, j) ==
  /\ r \in DOMAIN runs
  /\ Len(runs') = Len(runs)
  /\ runs[r].status[j] = "in_progress"
  /\ \/ runs'[r].status[j] # "in_progress"
     \/ runs'[r].step[j] # runs[r].step[j]

\* C6: check_gh_deploy issues exactly one GET, to https://phteven.space/, and
\* succeeds exactly when the status is 200; when it ends (in success or in
\* failure) the live content is, and stays, the artifact that deploy_pages of
\* the same run published.
C6_VerifyIsDiagnostic ==
  [][\A r \in DOMAIN runs :
       StepExits(r, "check_gh_deploy") =>
         /\ Len(runs'[r].responses) = 1
         /\ DOMAIN runs'[r].responses = DOMAIN <<"https://phteven.space/">>
         /\ runs'[r].status["check_gh_deploy"] =
              (IF runs'[r].responses[1] = 200 THEN "success" ELSE "failure")
         /\ live' = live
         /\ live = 0..runs[r].commit]_vars

\* the check got a 503 after the run's deploy_pages published: the run
\* failed and the live content is the run's artifact
C6_Witness ==
  \E r \in DOMAIN runs :
    /\ runs[r].status["check_gh_deploy"] = "failure"
    /\ runs[r].responses = <<503>>
    /\ runs[r].status["deploy_pages"] = "success"
    /\ live = runs[r].artifact
    /\ live # runs[r].before

\* C7: with deploy_aws enabled, deploy_pages and deploy_aws each wait for the
\* build job only: after a successful build each of them can be started
\* whatever the state of the other, and the failure of a step of one leaves
\* the status and the progress of the other unchanged.
C7_SiblingPublishes ==
  /\ [](\A r \in DOMAIN runs :
          \A j \in {"deploy_pages", "deploy_aws"} :
            (runs[r].status["build"] = "success" /\ runs[r].status[j] = "pending")
              => ENABLED StartJob(r, j))
  /\ [][\A r \in DOMAIN runs :
          /\ (StepExits(r, "deploy_pages") /\ runs'[r].status["deploy_pages"] = "failure")
               => /\ runs'[r].status["deploy_aws"] = runs[r].status["deploy_aws"]
                  /\ runs'[r].step["deploy_aws"] = runs[r].step["deploy_aws"]
          /\ (StepExits(r, "deploy_aws") /\ runs'[r].status["deploy_aws"] = "failure")
               => /\ runs'[r].status["deploy_pages"] = runs[r].status["deploy_pages"]
                  /\ runs'[r].status["check_gh_deploy"] = runs[r].status["check_gh_deploy"]]_vars

\* deploy_pages failed and deploy_aws completed its publish to the bucket
C7_Witness ==
  \E r \in DOMAIN runs :
    /\ runs[r].status["deploy_pages"] = "failure"
    /\ runs[r].status["deploy_aws"] = "success"
    /\ bucket = runs[r].artifact
    /\ live = runs[r].before

\* C8: no job of a run is started more than once, and a job that failed
\* stays failed: only a new run processes the commit again.
C8_NoRetry ==
  [][\A r \in DOMAIN runs :
       \A j \in DOMAIN runs[r].status :
         /\ runs'[r].attempt[j] <= 1
         /\ runs[r].status[j] = "failure" =>
              /\ runs'[r].status[j] = "failure"
              /\ runs'[r].step[j] = runs[r].step[j]
              /\ runs'[r].attempt[j] = runs[r].attempt[j]]_vars

\* the build of a commit failed and the same commit is processed by a
\* second run, created by a new push
C8_Witness ==
  /\ Len(runs) >= 2
  /\ runs[1].status["build"] = "failure"
  /\ runs[1].attempt["build"] = 1
  /\ runs[2].commit = runs[1].commit
  /\ runs[2].event = "push"
  /\ runs[2].status["deploy_pages"] = "success"

\* C9: the artifact of a run is stored once, is the build output of the
\* run's commit and never changes afterwards; when a deploy_pages step exits
\* with success the live content becomes the artifact of that same run, and
\* the live content changes in no other transition.
C9_ArtifactImmutable ==
  [][/\ \A r \in DOMAIN runs :
          /\ runs'[r].artifact \in {None, 0..runs[r].commit}
          /\ runs[r].artifact # None => runs'[r].artifact = runs[r].artifact
          /\ (StepExits(r, "deploy_pages") /\ runs'[r].status["deploy_pages"] = "success")
               => live' = runs[r].artifact /\ runs[r].artifact = 0..runs[r].commit
     /\ live' # live =>
          \E r \in DOMAIN runs :
            /\ StepExits(r, "deploy_pages")
            /\ runs'[r].status["deploy_pages"] = "success"
            /\ live' = runs[r].artifact]_vars

\* two runs of different commits both published, each its own artifact
C9_Witness ==
  /\ Len(runs) >= 2
  /\ runs[1].status["deploy_pages"] = "success"
  /\ runs[2].status["deploy_pages"] = "success"
  /\ runs[1].artifact # runs[2].artifact
  /\ live = runs[2].artifact

\* C10: a successful deploy_pages step replaces the live content by the
\* artifact: the content after it is the artifact whatever was live before,
\* and publishing the artifact that is already live leaves the live content
\* as it is.
C10_PublishIdempotent ==
  [][\A r \in DOMAIN runs :
       (StepExits(r, "deploy_pages") /\ runs'[r].status["deploy_pages"] = "success")
         => /\ live' = 0..runs[r].commit
            /\ live = 0..runs[r].commit => live' = live
            /\ \A r2 \in DOMAIN runs :
                 (r2 # r /\ runs[r2].status["deploy_pages"] = "success"
                    /\ runs[r2].commit = runs[r].commit /\ live = 0..runs[r2].commit)
                   => live' = live]_vars

\* the same artifact was published twice in a row, by two runs of one commit
C10_Witness ==
  /\ Len(runs) >= 2
  /\ runs[1].commit = runs[2].commit
  /\ runs[1].status["deploy_pages"] = "success"
  /\ runs[2].status["deploy_pages"] = "success"
  /\ live = runs[2].artifact
RunIds == 1..MaxRuns
Conclusion(run) ==
  IF \E j \in DOMAIN run.status : run.status[j] = "cancelled" THEN "cancelled"
  ELSE IF \E j \in DOMAIN run.status : run.status[j] = "failure" THEN "failure"
  ELSE IF \A j \in DOMAIN run.status : run.status[j] = "success" THEN "success"
  ELSE "none"
Terminated(r) == r \in DOMAIN runs /\ ~Active(runs[r])

\* C11: when every startable job is eventually started and every started
\* step eventually exits, every run that was created eventually terminates,
\* and a terminated run has succeeded (after check_gh_deploy), has failed at
\* exactly one job (the first that failed), or was cancelled.
C11_RunsTerminate ==
  /\ \A r \in RunIds : (r \in DOMAIN runs) ~> Terminated(r)
  /\ [](\A r \in DOMAIN runs :
          ~Active(runs[r]) =>
            /\ Conclusion(runs[r]) \in {"success", "failure", "cancelled"}
            /\ Conclusion(runs[r]) = "success" => runs[r].responses = <<200>>
            /\ Conclusion(runs[r]) = "failure" =>
                 Cardinality({j \in DOMAIN runs[r].status :
                                runs[r].status[j] = "failure"}) = 1)

\* one run ended cancelled by the run that superseded it, and that run ended
\* in failure at its deploy_pages job
C11_Witness ==
  /\ Len(runs) = 2
  /\ Terminated(1) /\ Conclusion(runs[1]) = "cancelled"
  /\ Terminated(2) /\ Conclusion(runs[2]) = "failure"
  /\ runs[2].status["deploy_pages"] = "failure"

\* C13: a run of which a job was cancelled by a superseding trigger takes no
\* further transition: its record never changes again, it does not write the
\* live content, and its check_gh_deploy job has not succeeded.
C13_CancelledRunsStay ==
  /\ [](\A r \in DOMAIN runs :
          Conclusion(runs[r]) = "cancelled" =>
            /\ ~Active(runs[r])
            /\ runs[r].status["check_gh_deploy"] = "cancelled")
  /\ [][\A r \in DOMAIN runs :
          Conclusion(runs[r]) = "cancelled" =>
            /\ runs'[r] = runs[r]
            /\ (live' # live =>
                  \E r2 \in DOMAIN runs \ {r} :
                    /\ Conclusion(runs[r2]) # "cancelled"
                    /\ StepExits(r2, "deploy_pages")
                    /\ live' = runs[r2].artifact)]_vars

\* a run was cancelled while its deploy_pages step was running, the live
\* content was then written by the run that superseded it
C13_Witness ==
  /\ Len(runs) = 2
  /\ runs[1].status["deploy_pages"] = "cancelled"
  /\ runs[1].attempt["deploy_pages"] = 1
  /\ runs[1].commit # runs[2].commit
  /\ runs[2].status["deploy_pages"] = "success"
  /\ live = runs[2].artifact
\* C12: each rendering of YoutubeEmbed gives an iframe whose src is
\* "https://www.youtube.com/embed/" followed by the characters of embed_id,
\* unchanged and in order, and whose title is the title prop; a rendering
\* depends on nothing but the props: an element with the src and the title
\* of the element already rendered is that element.
C12_EmbedIsPure ==
  [][rendered' # rendered =>
       LET frame == rendered'[1].children[1] IN
         /\ Len(rendered') = 1 /\ Len(rendered'[1].children) = 1
         /\ Len(frame.src) = 30 + Len(props.embed_id)
         /\ \A i \in 1..30 : frame.src[i] = EmbedUrl[i]
         /\ \A i \in 1..Len(props.embed_id) : frame.src[30 + i] = props.embed_id[i]
         /\ frame.title = props.title
         /\ (rendered # <<>> /\ rendered[1].children[1].src = frame.src
               /\ rendered[1].children[1].title = frame.title) => rendered' = rendered]_vars

\* an identifier with an ampersand was rendered, uninterpreted
C12_Witness ==
  /\ props.embed_id = <<"a", "&">>
  /\ props.title = <<"a">>
  /\ rendered # <<>>
  /\ rendered[1].children[1].src = EmbedUrl \o <<"a", "&">>
  /\ rendered[1].children[1].title = <<"a">>
====
